---- MODULE Spec2Model ----
(***************************************************************************)
(* Burnout detector (src/main.go): one HTTP process over one SQLite table. *)
(* The model has the three handlers, the start-up migration, the clock     *)
(* that stamps created_at, and the pieces of the Go and SQLite libraries   *)
(* the handlers rest on (strconv parsing, float64 arithmetic with NaN and  *)
(* the infinities, fmt verbs, SQL ordering and NULL).                      *)
(***************************************************************************)
EXTENDS Integers, Sequences, FiniteSets, TLC

VARIABLES
    phase,        \* "starting" | "serving" | "fatal" | "stopped": where main() is
    tableExists,  \* whether burnout.db holds the entries table
    entries,      \* the rows of the entries table, in rowid order
    now,          \* the wall clock, in whole seconds (CURRENT_TIMESTAMP's resolution)
    req,          \* the last request this process took: handler, method, form
    resp,         \* its response: status and body
    heldAtStart   \* how many rows the file held when this process ran its migration

vars == <<phase, tableExists, entries, now, req, resp, heldAtStart>>

---------------------------------------------------------------------------
(* Bounds of the model *)

\* Decimal places kept by the model's float64 values.  The inputs used are
\* multiples of 1/4, which float64 and this fixed point both hold exactly.
FracDigits == 2
Scale == 10 ^ FracDigits

\* Rows the table may hold in the server specification.
MaxRows == 2
\* Rows the table may hold in the chart specification (more than the LIMIT).
MaxChartRows == 11
\* The first modelled second of the clock (23:59:59) and how far it may run.
ClockStart == 86399
MaxTicks == 1

---------------------------------------------------------------------------
(* float64: a finite value is kept as v = value * Scale *)

Fin(n) == [kind |-> "fin", v |-> n]
Inf(sign) == [kind |-> "inf", v |-> sign]
NaN == [kind |-> "nan", v |-> 0]
Null == [kind |-> "null", v |-> 0]

\* float64(i) of an int, and a float64 literal such as 8.0
FromInt(i) == Fin(i * Scale)

IsNaN(x) == x.kind = "nan"
IsNumber(x) == x.kind \in {"fin", "inf"}

FNeg(x) == IF x.kind = "nan" THEN NaN ELSE [x EXCEPT !.v = -x.v]

FAdd(x, y) ==
    IF IsNaN(x) \/ IsNaN(y) THEN NaN
    ELSE IF x.kind = "inf" /\ y.kind = "inf"
         THEN (IF x.v = y.v THEN x ELSE NaN)
    ELSE IF x.kind = "inf" THEN x
    ELSE IF y.kind = "inf" THEN y
    ELSE Fin(x.v + y.v)

FSub(x, y) == FAdd(x, FNeg(y))

Sgn(n) == IF n > 0 THEN 1 ELSE IF n < 0 THEN -1 ELSE 0

\* The products of the formula have a whole-number factor, so the division
\* by Scale is exact.
FMul(x, y) ==
    IF IsNaN(x) \/ IsNaN(y) THEN NaN
    ELSE IF x.kind = "inf" \/ y.kind = "inf"
         THEN (IF Sgn(x.v) * Sgn(y.v) = 0 THEN NaN ELSE Inf(Sgn(x.v) * Sgn(y.v)))
    ELSE Fin((x.v * y.v) \div Scale)

\* x < y, false when either is NaN
FLt(x, y) ==
    /\ IsNumber(x) /\ IsNumber(y)
    /\ \/ x.kind = "fin" /\ y.kind = "fin" /\ x.v < y.v
       \/ x = Inf(-1) /\ y # Inf(-1)
       \/ y = Inf(1) /\ x # Inf(1)

FLe(x, y) == IsNumber(x) /\ IsNumber(y) /\ (x = y \/ FLt(x, y))
FGt(x, y) == FLt(y, x)

\* math.Min and math.Max: NaN if either argument is NaN
MathMin(x, y) == IF IsNaN(x) \/ IsNaN(y) THEN NaN ELSE IF FLt(y, x) THEN y ELSE x
MathMax(x, y) == IF IsNaN(x) \/ IsNaN(y) THEN NaN ELSE IF FLt(x, y) THEN y ELSE x

---------------------------------------------------------------------------
(* strconv: a form value is a sequence of one-character strings *)

DigitChars == <<"0", "1", "2", "3", "4", "5", "6", "7", "8", "9">>
IsDigit(c) == \E d \in 1..10 : DigitChars[d] = c
DigitVal(c) == (CHOOSE d \in 1..10 : DigitChars[d] = c) - 1

ToLower(c) ==
    CASE c = "N" -> "n" [] c = "A" -> "a" [] c = "I" -> "i" [] c = "F" -> "f"
      [] c = "T" -> "t" [] c = "Y" -> "y" [] c = "E" -> "e" [] OTHER -> c

\* The run of decimal digits of s from position i: its value, its length and
\* the position after it.
RECURSIVE ReadDigits(_, _, _, _)
ReadDigits(s, i, acc, n) ==
    IF i <= Len(s) /\ IsDigit(s[i])
    THEN ReadDigits(s, i + 1, acc * 10 + DigitVal(s[i]), n + 1)
    ELSE [val |-> acc, count |-> n, next |-> i]

\* Largest decimal exponent of a finite float64 (1.797e308).
MaxExp10 == 308

\* mant * 10^e in units of 1/Scale; digits below the model's resolution are cut.
Scaled(mant, e) ==
    IF e + FracDigits >= 0
    THEN mant * 10 ^ (e + FracDigits)
    ELSE mant \div 10 ^ (0 - (e + FracDigits))

\* strconv.ParseFloat(s, 64): the value and the error.  A syntax error gives 0;
\* a range error gives the infinity of the sign, which a caller that drops the
\* error goes on to use.
ParseFloat(s) ==
    LET signed == s # <<>> /\ s[1] \in {"+", "-"}
        sign == IF signed /\ s[1] = "-" THEN -1 ELSE 1
        body == IF signed THEN Tail(s) ELSE s
        low == [i \in 1..Len(body) |-> ToLower(body[i])]
        ip == ReadDigits(body, 1, 0, 0)
        hasDot == ip.next <= Len(body) /\ body[ip.next] = "."
        fp == IF hasDot THEN ReadDigits(body, ip.next + 1, 0, 0)
              ELSE [val |-> 0, count |-> 0, next |-> ip.next]
        hasExp == fp.next <= Len(body) /\ low[fp.next] = "e"
        esigned == hasExp /\ fp.next + 1 <= Len(body) /\ body[fp.next + 1] \in {"+", "-"}
        esign == IF esigned /\ body[fp.next + 1] = "-" THEN -1 ELSE 1
        ep == IF hasExp
              THEN ReadDigits(body, fp.next + 1 + (IF esigned THEN 1 ELSE 0), 0, 0)
              ELSE [val |-> 0, count |-> 0, next |-> fp.next]
        exp == esign * ep.val
        mant == ip.val * 10 ^ fp.count + fp.val
        wellFormed == /\ ip.count + fp.count > 0
                      /\ hasExp => ep.count > 0
                      /\ ep.next = Len(body) + 1
    IN  IF low \in {<<"i", "n", "f">>, <<"i", "n", "f", "i", "n", "i", "t", "y">>}
        THEN [f |-> Inf(sign), err |-> "nil"]
        ELSE IF ~signed /\ low = <<"n", "a", "n">>
        THEN [f |-> NaN, err |-> "nil"]
        ELSE IF ~wellFormed
        THEN [f |-> Fin(0), err |-> "syntax"]
        ELSE IF mant > 0 /\ ip.count + exp > MaxExp10 + 1
        THEN [f |-> Inf(sign), err |-> "range"]
        ELSE [f |-> Fin(sign * Scaled(mant, exp - fp.count)), err |-> "nil"]

\* strconv.Atoi(s): the value and the error; 0 on a syntax error.
Atoi(s) ==
    LET signed == s # <<>> /\ s[1] \in {"+", "-"}
        sign == IF signed /\ s[1] = "-" THEN -1 ELSE 1
        body == IF signed THEN Tail(s) ELSE s
        dp == ReadDigits(body, 1, 0, 0)
    IN  IF dp.count > 0 /\ dp.next = Len(body) + 1
        THEN [i |-> sign * dp.val, err |-> "nil"]
        ELSE [i |-> 0, err |-> "syntax"]

---------------------------------------------------------------------------
(* The submitted form.  r.FormValue gives "" for a field that is missing. *)

FormValue(form, key) == form[key]

FormFloatOrNaN(form, key) ==
    IF ParseFloat(FormValue(form, key)).err = "nil"
    THEN ParseFloat(FormValue(form, key)).f
    ELSE NaN
\* lines 110-111: the error of ParseFloat is dropped
FormFloat(form, key) == ParseFloat(FormValue(form, key)).f

\* lines 112-114: the error of Atoi is dropped
FormInt(form, key) == Atoi(FormValue(form, key)).i

\* line 115
FormChecked(form, key) == FormValue(form, key) = <<"o", "n">>

AnyMethodAllowed(method) == TRUE
\* line 104
MethodAllowed(method) == method = "POST"

---------------------------------------------------------------------------
(* The score, lines 117-156 *)

SleepPenalty(sleep) == FMul(FSub(FromInt(8), sleep), FromInt(8))

ExerciseBonus(exercise) == IF exercise THEN FromInt(10) ELSE FromInt(0)

RawScore(sleep, studyHours, deadlines, stress, exercise) ==
    FSub(FAdd(FAdd(FAdd(FMul(FromInt(deadlines), FromInt(10)),
                        FMul(FromInt(stress), FromInt(12))),
                   SleepPenalty(sleep)),
              FMul(studyHours, FromInt(3))),
         ExerciseBonus(exercise))

\* line 136: math.Max(0, math.Min(100, rawScore))
Clamp(rawScore) == MathMax(FromInt(0), MathMin(FromInt(100), rawScore))

LevelExclusive(score) ==
    IF FLt(score, FromInt(30)) THEN "Healthy"
    ELSE IF FLt(score, FromInt(60)) THEN "At Risk"
    ELSE IF FLt(score, FromInt(80)) THEN "High Risk"
    ELSE "Severe Burnout"
\* lines 139-156 (the labels without their emoji)
Level(score) ==
    IF FLe(score, FromInt(30)) THEN "Healthy"
    ELSE IF FLe(score, FromInt(60)) THEN "At Risk"
    ELSE IF FLe(score, FromInt(80)) THEN "High Risk"
    ELSE "Severe Burnout"

Levels == {"Healthy", "At Risk", "High Risk", "Severe Burnout"}

\* lines 110-136: from the submitted form to the clamped score
ComputeScore(form) ==
    Clamp(RawScore(FormFloat(form, "sleep"), FormFloat(form, "study"),
                   FormInt(form, "deadlines"), FormInt(form, "stress"),
                   FormChecked(form, "exercise")))

---------------------------------------------------------------------------
(* generateAIAdvice, lines 285-330.  The advice is kept as its three parts; *)
(* the High Risk body embeds the deadline count.                           *)

intro == <<"workload patterns", "physiological and academic inputs",
           "sleep data with stress levels", "my assessment">>

AdviceBody(deadlines, score) ==
    IF FGt(score, FromInt(80)) THEN <<"critical overdrive">>
    ELSE IF FGt(score, FromInt(60)) THEN <<"high-pressure zone", deadlines>>
    ELSE IF FGt(score, FromInt(30)) THEN <<"early signs of friction">>
    ELSE <<"optimal balance">>

AdviceAction(sleep, deadlines, stress) ==
    IF FLt(sleep, FromInt(5)) THEN "disconnect before bed"
    ELSE IF stress > 3 THEN "pomodoro"
    ELSE IF deadlines > 4 THEN "triage deadlines"
    ELSE "maintain routine"

\* selected is the index rand.Intn(len(intro)) drew
generateAIAdvice(sleep, deadlines, stress, score, selected) ==
    <<intro[selected + 1], AdviceBody(deadlines, score), AdviceAction(sleep, deadlines, stress)>>

---------------------------------------------------------------------------
(* fmt: %.Nf of a float64, and time.Format("15:04") *)

\* v / unit rounded to the nearest integer, halves to even
RoundHalfEven(v, unit) ==
    LET q == v \div unit
        r == v % unit
    IN  IF 2 * r > unit THEN q + 1
        ELSE IF 2 * r < unit THEN q
        ELSE IF q % 2 = 0 THEN q ELSE q + 1

\* fmt's %.<places>f: the digits as an integer count of 10^-places
Sprintf_f(x, places) ==
    CASE x.kind = "nan" -> [text |-> "NaN", n |-> 0, places |-> places]
      [] x.kind = "inf" -> [text |-> IF x.v > 0 THEN "+Inf" ELSE "-Inf", n |-> 0, places |-> places]
      [] OTHER -> [text |-> "digits", n |-> RoundHalfEven(x.v, 10 ^ (FracDigits - places)),
                   places |-> places]

\* t.Format("15:04"): hour and minute of the day
Format1504(t) == <<(t \div 3600) % 24, (t \div 60) % 60>>

---------------------------------------------------------------------------
(* The entries table, lines 73-87, and the two statements run on it *)

\* SQLite binds a NaN double as NULL; every other double is stored as it is.
BindDouble(x) == IF IsNaN(x) THEN Null ELSE x

RECURSIVE MaxId(_)
MaxId(rows) == IF rows = <<>> THEN 0
               ELSE LET m == MaxId(Tail(rows))
                    IN  IF Head(rows).id > m THEN Head(rows).id ELSE m

ReplaceTable(rows, values, t) ==
    <<[values EXCEPT !.id = 1, !.created_at = t]>>
\* lines 162-165: INSERT.  id is AUTOINCREMENT (line 75), created_at defaults
\* to CURRENT_TIMESTAMP (line 76).
Insert(rows, values, t) ==
    Append(rows, [values EXCEPT !.id = MaxId(rows) + 1, !.created_at = t])

\* ORDER BY created_at <dir>.  Rows with equal created_at come in an order SQL
\* leaves to the engine: tie says whether it is by rowid or by reverse rowid.
Before(a, b, dir, tie) ==
    IF a.created_at # b.created_at
    THEN (IF dir = "ASC" THEN a.created_at < b.created_at ELSE a.created_at > b.created_at)
    ELSE (IF tie = "rowid" THEN a.id < b.id ELSE a.id > b.id)

RECURSIVE InsertSorted(_, _, _, _)
InsertSorted(sorted, r, dir, tie) ==
    IF sorted = <<>> THEN <<r>>
    ELSE IF Before(r, Head(sorted), dir, tie) THEN <<r>> \o sorted
    ELSE <<Head(sorted)>> \o InsertSorted(Tail(sorted), r, dir, tie)

RECURSIVE OrderBy(_, _, _)
OrderBy(rows, dir, tie) ==
    IF rows = <<>> THEN <<>>
    ELSE InsertSorted(OrderBy(Tail(rows), dir, tie), Head(rows), dir, tie)

Limit(rows, n) == SubSeq(rows, 1, IF Len(rows) < n THEN Len(rows) ELSE n)

\* line 336: LIMIT 10
ChartLimit == 10

TieOrders == {"rowid", "reverse rowid"}

\* lines 334-338: the ten rows of greatest created_at, then ascending
RecentSeries(rows, tieInner, tieOuter) ==
    OrderBy(Limit(OrderBy(rows, "DESC", tieInner), ChartLimit), "ASC", tieOuter)

\* line 351: rows.Scan(&t, &s) fails on a NULL score
ScanOK(row) == row.score.kind # "null"

ScanStepLabelFirst(acc, row) ==
    IF ~ScanOK(row) THEN [acc EXCEPT !.labels = Append(@, Format1504(row.created_at))]
    ELSE [labels |-> Append(acc.labels, Format1504(row.created_at)),
          data |-> Append(acc.data, row.score)]
\* lines 348-356: one turn of the loop
ScanStep(acc, row) ==
    IF ~ScanOK(row) THEN acc
    ELSE [labels |-> Append(acc.labels, Format1504(row.created_at)),
          data |-> Append(acc.data, row.score)]

RECURSIVE ScanRows(_, _)
ScanRows(rows, acc) ==
    IF rows = <<>> THEN acc ELSE ScanRows(Tail(rows), ScanStep(acc, Head(rows)))

\* encoding/json writes a nil slice as null and any other slice as an array
EncodeSlice(s) == [null |-> s = <<>>, items |-> s]

---------------------------------------------------------------------------
(* Requests and responses *)

Form(sleep, study, deadlines, mood, stress, exercise) ==
    [sleep |-> sleep, study |-> study, deadlines |-> deadlines,
     mood |-> mood, stress |-> stress, exercise |-> exercise]

On == <<"o", "n">>
NoForm == Form(<<>>, <<>>, <<>>, <<>>, <<>>, <<>>)

Request(handler, method, form) == [handler |-> handler, method |-> method, form |-> form]

NoReq == Request("none", "", NoForm)
NoResp == [status |-> 0, body |-> [kind |-> "none"]]

\* http.Error(w, msg, code)
HttpError(code, msg) == [status |-> code, body |-> [kind |-> "error", msg |-> msg]]

\* lines 172-281: the result fragment, by the arguments of its Sprintf
Fragment(sleep, deadlines, stress, exercise, score, level, advice) ==
    [kind |-> "fragment",
     gauge |-> Sprintf_f(score, 0),
     level |-> level,
     advice |-> advice,
     sleep |-> Sprintf_f(sleep, 1),
     deadlines |-> deadlines,
     stress |-> stress,
     exerciseStr |-> IF exercise THEN "Yes" ELSE "No",
     resetPlan |-> FGt(score, FromInt(80)),
     saved |-> Sprintf_f(score, 2)]

---------------------------------------------------------------------------
(* main and runMigrations, lines 41-90 *)

KeepTable(rows) == rows
\* lines 68-71: DROP TABLE IF EXISTS entries
DropTable(rows) == <<>>

MainOutcomes == {"ok", "drop fails", "create fails", "listen fails"}

\* main from runMigrations on.  outcome is "ok" or the call that failed:
\* every failure ends in log.Fatal.
Main(outcomes) ==
    /\ phase = "starting"
    /\ \E outcome \in outcomes :
        /\ heldAtStart' = Len(entries)
        /\ entries' = IF outcome = "drop fails" THEN entries ELSE DropTable(entries)
        /\ tableExists' = CASE outcome = "drop fails" -> tableExists
                            [] outcome = "create fails" -> FALSE
                            [] OTHER -> TRUE
        /\ phase' = IF outcome = "ok" THEN "serving" ELSE "fatal"
    /\ req' = NoReq
    /\ resp' = NoResp
    /\ UNCHANGED now

\* The process ends (a signal, or http.ListenAndServe returning, line 61);
\* burnout.db stays as it is.
Shutdown ==
    /\ phase = "serving"
    /\ phase' = "stopped"
    /\ req' = NoReq
    /\ resp' = NoResp
    /\ UNCHANGED <<tableExists, entries, now, heldAtStart>>

\* The binary is run again: main opens burnout.db, lines 41-48.
Start ==
    /\ phase \in {"stopped", "fatal"}
    /\ phase' = "starting"
    /\ UNCHANGED <<tableExists, entries, now, req, resp, heldAtStart>>

\* A second passes.
Tick ==
    /\ now < ClockStart + MaxTicks
    /\ now' = now + 1
    /\ UNCHANGED <<phase, tableExists, entries, req, resp, heldAtStart>>

---------------------------------------------------------------------------
(* The handlers *)

\* lines 93-100
handleIndex ==
    /\ phase = "serving"
    /\ req' = Request("index", "GET", NoForm)
    /\ \E templateOK \in BOOLEAN :
         resp' = IF templateOK
                 THEN [status |-> 200, body |-> [kind |-> "page"]]
                 ELSE HttpError(500, "template")
    /\ UNCHANGED <<phase, tableExists, entries, now, heldAtStart>>

\* lines 103-282.  selected is the intro rand.Intn draws; insertOK is whether
\* db.Exec of the INSERT succeeds.
handleCalculate(method, form, selected, insertOK) ==
    /\ phase = "serving"
    /\ req' = Request("calculate", method, form)
    /\ IF ~MethodAllowed(method)
       THEN /\ resp' = HttpError(405, "Method not allowed")
            /\ UNCHANGED entries
       ELSE LET sleep == FormFloat(form, "sleep")
                studyHours == FormFloat(form, "study")
                deadlines == FormInt(form, "deadlines")
                mood == FormInt(form, "mood")
                stress == FormInt(form, "stress")
                exercise == FormChecked(form, "exercise")
                score == ComputeScore(form)
                level == Level(score)
                advice == generateAIAdvice(sleep, deadlines, stress, score, selected)
                values == [id |-> 0, created_at |-> 0,
                           sleep |-> BindDouble(sleep),
                           study_hours |-> BindDouble(studyHours),
                           deadlines |-> deadlines, mood |-> mood, stress |-> stress,
                           exercise |-> exercise, score |-> BindDouble(score),
                           level |-> level, advice |-> advice]
            IN  IF insertOK
                THEN /\ entries' = Insert(entries, values, now)
                     /\ resp' = [status |-> 200,
                                 body |-> Fragment(sleep, deadlines, stress, exercise,
                                                   score, level, advice)]
                ELSE /\ resp' = HttpError(500, "insert")
                     /\ UNCHANGED entries
    /\ UNCHANGED <<phase, tableExists, now, heldAtStart>>

\* lines 333-362.  queryOK is whether db.Query succeeds; tieInner and tieOuter
\* are the orders the two ORDER BY clauses give rows of equal created_at.
handleChartData(queryOK, tieInner, tieOuter) ==
    /\ phase = "serving"
    /\ req' = Request("chart", "GET", NoForm)
    /\ resp' = IF ~queryOK
               THEN HttpError(500, "query")
               ELSE LET scanned == ScanRows(RecentSeries(entries, tieInner, tieOuter),
                                            [labels |-> <<>>, data |-> <<>>])
                    IN  [status |-> 200,
                         body |-> [kind |-> "json",
                                   labels |-> EncodeSlice(scanned.labels),
                                   data |-> EncodeSlice(scanned.data)]]
    /\ UNCHANGED <<phase, tableExists, entries, now, heldAtStart>>

---------------------------------------------------------------------------
(* Inputs *)

Methods == {"GET", "POST"}
Intros == 0..(Len(intro) - 1)

\* Every combination of the field values of raws is a form that may be sent.
\* A request the method check turns away is answered before its form is read.
Calculate(methods, raws, intros, inserts, maxRows) ==
    \E method \in methods :
        IF ~MethodAllowed(method)
        THEN handleCalculate(method, NoForm, 0, TRUE)
        ELSE /\ Len(entries) < maxRows
             /\ \E sl \in raws.sleep, st \in raws.study, d \in raws.deadlines,
                   m \in raws.mood, s \in raws.stress, e \in raws.exercise,
                   selected \in intros, insertOK \in inserts :
                    handleCalculate(method, Form(sl, st, d, m, s, e), selected, insertOK)

ChartData ==
    \E queryOK \in BOOLEAN :
        IF queryOK
        THEN \E tieInner \in TieOrders, tieOuter \in TieOrders :
                handleChartData(TRUE, tieInner, tieOuter)
        ELSE handleChartData(FALSE, "rowid", "rowid")

\* sleep=8 study=0 deadlines=1 stress=1 exercise: 12 (Healthy);
\* sleep=4.5: 40 (At Risk); sleep=NaN: the score is NaN
BaseRaws ==
    [sleep |-> {<<"8">>}, study |-> {<<"0">>},
     deadlines |-> {<<"1">>}, mood |-> {<<"4">>}, stress |-> {<<"1">>},
     exercise |-> {On}]

ServerRaws == [BaseRaws EXCEPT !.sleep = {<<"8">>, <<"N", "a", "N">>}]
ChartRaws == [BaseRaws EXCEPT !.sleep = {<<"8">>, <<"N", "a", "N">>}]
BurstRaws == [BaseRaws EXCEPT !.sleep = {<<"8">>, <<"4", ".", "5">>}]

ScoreRaws ==
    [sleep |-> {<<>>, <<"a", "b", "c">>, <<"0">>, <<"8">>, <<"7", ".", "7", "5">>,
                <<"4", ".", "5">>, <<"1", "2">>, <<"N", "a", "N">>,
                <<"1", "e", "9", "9", "9">>, <<"-", "1", "e", "9", "9", "9">>},
     study |-> {<<>>, <<"0">>, <<"0", ".", "2", "5">>, <<"1", "0">>, <<"2", "0">>,
                <<"1", "e", "9", "9", "9">>},
     deadlines |-> {<<>>, <<"0">>, <<"2">>, <<"3">>, <<"1", "0">>, <<"-", "2">>,
                    <<"2", ".", "5">>},
     mood |-> {<<"1">>, <<"5">>, <<"b", "a", "d">>},
     stress |-> {<<>>, <<"0">>, <<"1">>, <<"5">>},
     exercise |-> {On, <<>>}]

---------------------------------------------------------------------------
(* Specifications *)

Init ==
    /\ phase = "starting"
    /\ tableExists = FALSE
    /\ entries = <<>>
    /\ now = ClockStart
    /\ req = NoReq
    /\ resp = NoResp
    /\ heldAtStart = 0

\* The server: every request, over runs of the process.
Next ==
    \/ Main(MainOutcomes)
    \/ Shutdown
    \/ Start
    \/ Tick
    \/ handleIndex
    \/ Calculate(Methods, ServerRaws, Intros, BOOLEAN, MaxRows)
    \/ ChartData

Spec == Init /\ [][Next]_vars

\* One run in which more submissions than the chart's LIMIT arrive within one
\* second, some of them with a NaN score.
NextChart ==
    \/ Main({"ok"})
    \/ Calculate({"POST"}, ChartRaws, {0}, BOOLEAN, MaxChartRows)
    \/ ChartData

SpecChart == Init /\ [][NextChart]_vars

\* The same burst with two different finite scores.
NextBurst ==
    \/ Main({"ok"})
    \/ Calculate({"POST"}, BurstRaws, {0}, BOOLEAN, MaxChartRows)
    \/ ChartData

SpecBurst == Init /\ [][NextBurst]_vars

\* The first submission of a run that is stored, over every combination of
\* the field values.
NextScore ==
    \/ Main({"ok"})
    \/ Calculate({"POST"}, ScoreRaws, Intros, {TRUE}, 1)

SpecScore == Init /\ [][NextScore]_vars

---------------------------------------------------------------------------
(* Properties *)

Row(i) == entries[i]
LastRow == entries[Len(entries)]
Count(seq, x) == Cardinality({i \in DOMAIN seq : seq[i] = x})
IsPrefix(s, t) == Len(s) <= Len(t) /\ SubSeq(t, 1, Len(s)) = s

ChartAnswered == req.handler = "chart" /\ resp.status = 200
FragmentAnswered == req.handler = "calculate" /\ resp.status = 200

\* The tier of a finite score v (in units of 1/Scale) by the documented
\* thresholds, each an inclusive upper bound.
ThresholdLevel(v) ==
    IF v <= 30 * Scale THEN "Healthy"
    ELSE IF v <= 60 * Scale THEN "At Risk"
    ELSE IF v <= 80 * Scale THEN "High Risk"
    ELSE "Severe Burnout"

\* The documented formula on a row's stored inputs, in units of 1/Scale.
FormulaScore(r) ==
    LET raw == r.deadlines * 10 * Scale + r.stress * 12 * Scale
               + (8 * Scale - r.sleep.v) * 8 + r.study_hours.v * 3
               - (IF r.exercise THEN 10 * Scale ELSE 0)
    IN  IF raw < 0 THEN 0 ELSE IF raw > 100 * Scale THEN 100 * Scale ELSE raw

\* C1: every persisted entry has a score in [0,100], whatever was submitted.
\* Fails: sleep=NaN (or sleep=1e999 with study=1e999) makes the raw score NaN,
\* math.Min and math.Max pass NaN through, and the row is stored without a
\* score.
C1_ScoreInRange ==
    \A i \in DOMAIN entries :
        /\ Row(i).score.kind = "fin"
        /\ 0 <= Row(i).score.v /\ Row(i).score.v <= 100 * Scale

\* C2: the level of every computed and persisted entry is given by its score
\* through the inclusive upper bounds 30, 60, 80: each row and each fragment
\* carries exactly the level of its score, and a row stored without a score
\* (no comparison with NaN holds) carries the level of the last branch.
C2_LevelByThresholds ==
    /\ \A i \in DOMAIN entries :
        /\ Row(i).level \in Levels
        /\ Row(i).score.kind = "fin" => Row(i).level = ThresholdLevel(Row(i).score.v)
        /\ Row(i).score.kind = "null" => Row(i).level = "Severe Burnout"
    /\ (FragmentAnswered /\ resp.body.saved.text = "digits") =>
        resp.body.level = ThresholdLevel(resp.body.saved.n * 10 ^ (FracDigits - 2))

\* C2's case: a score of exactly 30 is stored as Healthy.
C2_ScoreThirtyHealthy ==
    /\ FragmentAnswered
    /\ LastRow.score = Fin(30 * Scale)
    /\ LastRow.level = "Healthy"
    /\ resp.body.level = "Healthy"

\* C3: the persisted score of every submission is
\* clamp(deadlines*10 + stress*12 + (8-sleep)*8 + studyHours*3 - bonus, 0, 100),
\* a number of [0,100] in which mood has no part, and the level is that score's.
\* Fails on the submissions of C1: the row holds no score.
C3_ScoreIsClampedFormula ==
    \A i \in DOMAIN entries :
        /\ Row(i).score.kind = "fin"
        /\ (Row(i).sleep.kind = "fin" /\ Row(i).study_hours.kind = "fin") =>
                Row(i).score.v = FormulaScore(Row(i))
        /\ Row(i).level = ThresholdLevel(Row(i).score.v)

\* The (label, score) pairs of a chart body, and those of a sequence of rows.
ChartPairs(body) ==
    [i \in 1..Len(body.data.items) |-> <<body.labels.items[i], body.data.items[i]>>]
RowPairs(rows) ==
    [i \in 1..Len(rows) |-> <<Format1504(rows[i].created_at), rows[i].score>>]
MostRecent(n) ==
    LET k == IF Len(entries) < n THEN Len(entries) ELSE n
    IN  SubSeq(entries, Len(entries) - k + 1, Len(entries))
NonDecreasing(rows) ==
    \A i \in 1..(Len(rows) - 1) : rows[i].created_at <= rows[i + 1].created_at

\* C4: a chart response holds at most 10 pairs, in non-decreasing order of
\* creation time, and they are exactly the pairs of the 10 most recently
\* created rows (of all rows when there are fewer), also when rows share a
\* created_at.  Fails: created_at has a resolution of one second and is the
\* only sort key, so of eleven rows of the same second the engine may keep the
\* first ten.
C4_ChartIsMostRecentTen ==
    /\ \A ti \in TieOrders, to \in TieOrders : NonDecreasing(RecentSeries(entries, ti, to))
    /\ ChartAnswered =>
        /\ Len(resp.body.data.items) <= ChartLimit
        /\ Len(resp.body.data.items) = Len(MostRecent(ChartLimit))
        /\ \A i \in DOMAIN entries :
            LET pair == RowPairs(entries)[i]
            IN  Count(ChartPairs(resp.body), pair) = Count(RowPairs(MostRecent(ChartLimit)), pair)

\* C5: a request to /calculate whose method is not POST is answered 405 and
\* leaves the table as it was.
C5_NonPostRejected ==
    [][(req'.handler = "calculate" /\ req'.method # "POST") =>
            (resp'.status = 405 /\ resp'.body.kind = "error" /\ entries' = entries)]_vars

\* C5's case: a GET to /calculate was turned away while the table held rows.
C5_GetRejectedWithRows ==
    /\ req.handler = "calculate" /\ req.method = "GET"
    /\ resp.status = 405
    /\ Len(entries) > 0

\* Field values that are no number: missing, or not of the field's syntax.
MalformedFloat == {<<>>, <<"a", "b", "c">>}
MalformedInt == {<<>>, <<"b", "a", "d">>, <<"2", ".", "5">>}
ZeroIf(raw, malformed) == IF raw \in malformed THEN <<"0">> ELSE raw
\* The form with 0 supplied for each malformed numeric field.
Supplied0(form) ==
    Form(ZeroIf(form.sleep, MalformedFloat), ZeroIf(form.study, MalformedFloat),
         ZeroIf(form.deadlines, MalformedInt), ZeroIf(form.mood, MalformedInt),
         ZeroIf(form.stress, MalformedInt), form.exercise)

\* C6: a POST with a malformed or missing numeric field is not turned away for
\* it: the only failure is that of the insert, and otherwise the row stored and
\* the fragment returned have the score and level of the submission that
\* supplied 0 for that field.
C6_MalformedTreatedAsZero ==
    (req.handler = "calculate" /\ req.method = "POST") =>
        /\ resp.status \in {200, 500}
        /\ resp.status = 500 => resp.body.msg = "insert"
        /\ resp.status = 200 =>
            LET zero == ComputeScore(Supplied0(req.form))
            IN  /\ resp.body.kind = "fragment"
                /\ resp.body.saved = Sprintf_f(zero, 2)
                /\ resp.body.gauge = Sprintf_f(zero, 0)
                /\ resp.body.level = Level(zero)
                /\ LastRow.score = BindDouble(zero)
                /\ LastRow.level = Level(zero)
                /\ LastRow.mood = FormInt(Supplied0(req.form), "mood")

\* C6's case: sleep=abc with nothing else set is scored as sleep=0: 64.
C6_SleepNotNumeric ==
    /\ FragmentAnswered
    /\ req.form.sleep = <<"a", "b", "c">>
    /\ resp.body.saved = [text |-> "digits", n |-> 6400, places |-> 2]
    /\ LastRow.score = Fin(64 * Scale)

\* C7: the labels and data of every chart response have the same length, at
\* most the LIMIT; a row that fails to decode is in neither and the other rows
\* are still there.
C7_LabelsMatchData ==
    ChartAnswered =>
        /\ Len(resp.body.labels.items) = Len(resp.body.data.items)
        /\ resp.body.labels.null = resp.body.data.null
        /\ Len(resp.body.data.items) <= ChartLimit
        /\ \A i \in DOMAIN resp.body.data.items : resp.body.data.items[i].kind = "fin"
        /\ Len(entries) <= ChartLimit =>
            Len(resp.body.data.items) = Cardinality({i \in DOMAIN entries : ScanOK(Row(i))})
        /\ Len(entries) > ChartLimit =>
            Len(resp.body.data.items) >=
                ChartLimit - Cardinality({i \in DOMAIN entries : ~ScanOK(Row(i))})

\* C7's case: more rows than the LIMIT, some of them skipped, some returned.
C7_SkippedAndReturned ==
    /\ ChartAnswered
    /\ Len(entries) > ChartLimit
    /\ \E i \in DOMAIN entries : ~ScanOK(Row(i))
    /\ Len(resp.body.data.items) > 0
    /\ Len(resp.body.data.items) < ChartLimit

\* C8: while the process runs a row is never changed or removed: a step adds
\* at most one row after the others, and index and chart requests add none.
C8_RowsImmutable ==
    [][(phase = "serving" /\ phase' = "serving") =>
            /\ IsPrefix(entries, entries')
            /\ Len(entries') <= Len(entries) + 1
            /\ req'.handler \in {"index", "chart"} => entries' = entries]_vars

\* C8's case: a chart request answered over a table of two rows.
C8_ChartOverTwoRows ==
    /\ ChartAnswered
    /\ Len(entries) >= 2

\* C9: when start-up succeeds the table exists and is empty, whatever the file
\* held; when it fails the process is gone and answers nothing; a chart
\* request over the fresh table gets an empty series.
C9_StartResets ==
    /\ [][(phase = "starting" /\ phase' # phase) =>
            /\ phase' \in {"serving", "fatal"}
            /\ phase' = "serving" => (tableExists' /\ entries' = <<>>)
            /\ req' = NoReq /\ resp' = NoResp]_vars
    /\ [][req' # req => (phase' = "serving" \/ req' = NoReq)]_vars
    /\ [](phase # "serving" => (req = NoReq /\ resp = NoResp))
    /\ []((ChartAnswered /\ entries = <<>>) =>
            (resp.body.labels.items = <<>> /\ resp.body.data.items = <<>>))

\* C9's case: the file held rows at the start, and the chart of the new run
\* is empty.
C9_EmptyAfterRestart ==
    /\ phase = "serving"
    /\ heldAtStart > 0
    /\ ChartAnswered
    /\ resp.body.data.items = <<>>
    /\ entries = <<>>

\* C10: a POST to /calculate either stores exactly one new row, with an id
\* above every other, and returns the fragment with that row's score and level,
\* or stores nothing and returns an error without a fragment.
\* Fails on the submissions of C1: the fragment shows NaN and the row holds no
\* score.
C10_StoredOrError ==
    [][(/\ req'.handler = "calculate" /\ req'.method = "POST"
        /\ <<req, resp, entries>>' # <<req, resp, entries>>) =>
            \/ /\ resp'.status = 200
               /\ resp'.body.kind = "fragment"
               /\ Len(entries') = Len(entries) + 1
               /\ IsPrefix(entries, entries')
               /\ LET row == entries'[Len(entries')]
                  IN  /\ \A i \in DOMAIN entries : row.id > entries[i].id
                      /\ resp'.body.level = row.level
                      /\ row.score.kind # "null"
                      /\ resp'.body.saved = Sprintf_f(row.score, 2)
            \/ /\ resp'.status = 500
               /\ resp'.body.kind = "error"
               /\ entries' = entries]_vars

====
